---- MODULE Spec2Model ----
(***************************************************************************)
(* Income & Debt Tracker (Debi / Bocha): the financial core (usdOf,        *)
(* netUsdOf, splitUsd, debtDeltaIncome, debtDeltaExpense) and the App      *)
(* component's document state with its actions and memoised derived        *)
(* values (debt, totals, monthly).                                         *)
(*                                                                         *)
(* Numbers are exact rationals <<numerator, denominator>> (denominator     *)
(* > 0, lowest terms); the rounding of IEEE doubles is not modelled.       *)
(* Dates are records [y, m, d]; the clock and the date parsing are taken   *)
(* in UTC, so an ISO date string and its Date object denote the same day.  *)
(* An absent object property is a field absent from the record's DOMAIN.   *)
(***************************************************************************)
EXTENDS Integers, Sequences, FiniteSets, TLC

VARIABLES
    db,        \* the document: meta, settings, invoices, expenses, changelog
    user,      \* current user: "null" | "Debi" | "Bocha"
    pin,       \* content of the PIN input
    flt,       \* filters: period, clientId, creator
    now,       \* the clock's current date
    nextId,    \* number of ids uid() has handed out
    steps,     \* number of handlers run so far
    debt,      \* memoised: the debt balance shown in "Current Debt"
    totals,    \* memoised: incomeUSD, yourShare, partnerShare
    monthly,   \* memoised: the chart's [ym, value] entries
    shown,     \* rendered: the rows TableInvoices / TableExpenses display
    alert,     \* text of the last alert() raised, "" when the last handler raised none
    last,      \* name of the last handler run (observation only)
    exported,  \* the file exportJSON last downloaded (NoFile before the first export)
    budget,    \* number of handlers a run may execute
    row,       \* core harness: the row the pure functions are applied to
    res        \* core harness: what the pure functions returned

appVars == <<db, user, pin, flt, now, nextId, steps, debt, totals, monthly, shown, alert, last,
            exported, budget>>
coreVars == <<row, res>>
vars == <<db, user, pin, flt, now, nextId, steps, debt, totals, monthly, shown, alert, last,
          exported, budget, row, res>>

-----------------------------------------------------------------------------
(* Exact rational arithmetic standing for JavaScript's number operators.   *)

Abs(n) == IF n < 0 THEN -n ELSE n

RECURSIVE GCD(_, _)
GCD(a, b) == IF b = 0 THEN a ELSE GCD(b, a % b)

Norm(n, d) ==
    LET s == IF d < 0 THEN -1 ELSE 1
        g == GCD(Abs(n), Abs(d))
    IN  <<(s * n) \div g, (s * d) \div g>>

Num(n) == <<n, 1>>
Zero == Num(0)
\* sums go through the least common denominator and products cancel crosswise, so
\* that intermediate values stay small
RAdd(a, b) ==
    IF a[2] = b[2] /\ a[2] = 1 THEN <<a[1] + b[1], 1>>
    ELSE LET g == GCD(a[2], b[2])
         IN  Norm(a[1] * (b[2] \div g) + b[1] * (a[2] \div g), (a[2] \div g) * b[2])
RNeg(a) == <<-a[1], a[2]>>
RSub(a, b) == RAdd(a, RNeg(b))
RMul(a, b) ==
    IF a[1] = 0 \/ b[1] = 0 THEN <<0, 1>>
    ELSE IF a[2] = 1 /\ b[2] = 1 THEN <<a[1] * b[1], 1>>
    ELSE LET g1 == GCD(Abs(a[1]), b[2])
             g2 == GCD(Abs(b[1]), a[2])
         IN  <<(a[1] \div g1) * (b[1] \div g2), (a[2] \div g2) * (b[2] \div g1)>>
RDiv(a, b) == RMul(a, IF b[1] < 0 THEN <<-b[2], -b[1]>> ELSE <<b[2], b[1]>>)
RLt(a, b) == a[1] * b[2] < b[1] * a[2]
RMax(a, b) == IF RLt(a, b) THEN b ELSE a

\* v ?? 0 on an object property
Nullish(obj, f) == IF f \in DOMAIN obj THEN obj[f] ELSE Zero
\* truthiness of a numeric object property (absent and 0 are falsy)
Truthy(obj, f) == f \in DOMAIN obj /\ obj[f] # Zero

-----------------------------------------------------------------------------
(* The financial core.                                                     *)

usdOf_NoSentinel(r) ==
    IF r.currency = "USD" THEN r.amount
    ELSE IF Truthy(r, "fxRate") THEN RMul(r.amount, r.fxRate) ELSE r.amount

usdOf(r) ==
    IF r.currency = "USD" THEN r.amount
    ELSE IF Truthy(r, "fxRate") THEN RDiv(r.amount, r.fxRate) ELSE Zero

\* the reducer callback of netUsdOf
adjStep(acc, adj) ==
    IF adj.type = "percent"
    THEN RMul(acc, RAdd(Num(1), RDiv(adj.value, Num(100))))
    ELSE RAdd(acc, adj.value)

\* Array.prototype.reduce with an initial value: left to right
RECURSIVE reduceFrom(_, _, _)
reduceFrom(adjs, i, acc) ==
    IF i > Len(adjs) THEN acc ELSE reduceFrom(adjs, i + 1, adjStep(acc, adjs[i]))

RECURSIVE reduceRightFrom(_, _, _)
reduceRightFrom(adjs, i, acc) ==
    IF i < 1 THEN acc ELSE reduceRightFrom(adjs, i - 1, adjStep(acc, adjs[i]))

netUsdOf_RightFold(r) == reduceRightFrom(r.adjustments, Len(r.adjustments), usdOf(r))

netUsdOf(r) == reduceFrom(r.adjustments, 1, usdOf(r))

splitUsd_PercentOnly(r) ==
    LET net == netUsdOf(r)
        d == RDiv(Nullish(r.split, "debi"), Num(100))
        b == RDiv(Nullish(r.split, "bocha"), Num(100))
    IN  [debiUSD |-> RMul(net, d), bochaUSD |-> RMul(net, b)]

splitUsd(r) ==
    LET net == netUsdOf(r)
    IN  IF r.split.mode = "amount"
        THEN [debiUSD |-> Nullish(r.split, "debi"), bochaUSD |-> Nullish(r.split, "bocha")]
        ELSE LET d == RDiv(Nullish(r.split, "debi"), Num(100))
                 b == RDiv(Nullish(r.split, "bocha"), Num(100))
             IN  [debiUSD |-> RMul(net, d), bochaUSD |-> RMul(net, b)]

debtDeltaIncome_OwnShare(inv) ==
    LET s == splitUsd(inv)
    IN  IF inv.createdBy = "Debi" THEN RNeg(s.debiUSD) ELSE s.bochaUSD

debtDeltaIncome(inv) ==
    LET s == splitUsd(inv)
    IN  IF inv.createdBy = "Debi" THEN RNeg(s.bochaUSD) ELSE s.debiUSD

debtDeltaExpense(exp) ==
    LET s == splitUsd(exp)
    IN  IF exp.paidBy = "Debi" THEN s.bochaUSD ELSE RNeg(s.debiUSD)

-----------------------------------------------------------------------------
(* Dates and the filter.                                                   *)

Date(y, m, d) == [y |-> y, m |-> m, d |-> d]
DateLt(a, b) ==
    \/ a.y < b.y
    \/ a.y = b.y /\ a.m < b.m
    \/ a.y = b.y /\ a.m = b.m /\ a.d < b.d

\* Date.prototype.setMonth on a date whose day is 1: the month index may lie
\* outside 0..11 and carries into the year
setMonth(dt, monthIndex) ==
    LET t == dt.y * 12 + monthIndex
    IN  Date(t \div 12, (t % 12) + 1, dt.d)

\* date.slice(0,7): the "YYYY-MM" key
ymOf(dt) == [y |-> dt.y, m |-> dt.m]
\* a.localeCompare(b) < 0 on "YYYY-MM" keys
YmLt(a, b) == a.y < b.y \/ (a.y = b.y /\ a.m < b.m)

lastMonths(n, today) ==
    LET first == Date(today.y, today.m, 1)
    IN  [start |-> setMonth(first, (today.m - 1) - (n - 1)), end |-> today]

dateRangeFor(period, today) ==
    LET defaultStart == lastMonths(6, today).start
    IN  IF period = "all" THEN [start |-> Date(2000, 1, 1), end |-> today]
        ELSE IF period = "ytd" THEN [start |-> Date(today.y, 1, 1), end |-> today]
        ELSE IF period = "12m"
             THEN [start |-> setMonth(defaultStart, (today.m - 1) - 11), end |-> today]
        ELSE [start |-> defaultStart, end |-> today]

\* truthiness of a string property
TruthyStr(obj, f) == f \in DOMAIN obj /\ obj[f] # ""

matchesFilters(r, f, today) ==
    LET rg == dateRangeFor(f.period, today)
    IN  /\ ~ (DateLt(r.date, rg.start) \/ DateLt(rg.end, r.date))
        /\ ~ (TruthyStr(r, "clientId") /\ f.clientId # "all" /\ r.clientId # f.clientId)
        /\ ~ (TruthyStr(r, "createdBy") /\ f.creator # "all" /\ r.createdBy # f.creator)

-----------------------------------------------------------------------------
(* Derived values of the App component (recomputed on every render).       *)

filterSeq(rows, f, today) ==
    SelectSeq(rows, LAMBDA r : matchesFilters(r, f, today))

\* db.invoices.reduce((acc, r) => acc + debtDeltaIncome(r), acc)
RECURSIVE reduceIncome(_, _, _)
reduceIncome(rows, i, acc) ==
    IF i > Len(rows) THEN acc
    ELSE reduceIncome(rows, i + 1, RAdd(acc, debtDeltaIncome(rows[i])))

\* db.expenses.reduce((acc, r) => acc + debtDeltaExpense(r), acc)
RECURSIVE reduceExpense(_, _, _)
reduceExpense(rows, i, acc) ==
    IF i > Len(rows) THEN acc
    ELSE reduceExpense(rows, i + 1, RAdd(acc, debtDeltaExpense(rows[i])))

debtOf_Shown(d, f, today) ==
    RAdd(reduceIncome(filterSeq(d.invoices, f, today), 1, Zero),
         reduceExpense(filterSeq(d.expenses, f, today), 1, Zero))

\* the filter and the clock are in scope of the memo but not read by it
debtOf(d, f, today) ==
    LET inc == reduceIncome(d.invoices, 1, Zero)
        exp == reduceExpense(d.expenses, 1, Zero)
    IN  RAdd(inc, exp)

\* db.invoices.reduce((a, r) => a + Math.max(0, netUsdOf(r)), a)
RECURSIVE reduceNet(_, _, _)
reduceNet(rows, i, a) ==
    IF i > Len(rows) THEN a
    ELSE reduceNet(rows, i + 1, RAdd(a, RMax(Zero, netUsdOf(rows[i]))))

\* db.invoices.reduce((a, r) => a + (user === "Debi" ? debiUSD : bochaUSD), a)
RECURSIVE reduceShare(_, _, _, _)
reduceShare(rows, i, a, u) ==
    IF i > Len(rows) THEN a
    ELSE reduceShare(rows, i + 1,
                     RAdd(a, IF u = "Debi" THEN splitUsd(rows[i]).debiUSD
                                           ELSE splitUsd(rows[i]).bochaUSD), u)

totalsOf(d, u) ==
    LET incomeUSD == reduceNet(d.invoices, 1, Zero)
        yourShare == reduceShare(d.invoices, 1, Zero, u)
    IN  [incomeUSD |-> incomeUSD, yourShare |-> yourShare,
         partnerShare |-> RSub(incomeUSD, yourShare)]

\* add(date, val) on the Map, kept as its entries in insertion order
mapAdd(map, dt, val) ==
    LET ym == ymOf(dt)
    IN  IF \E i \in 1..Len(map) : map[i][1] = ym
        THEN [i \in 1..Len(map) |->
                 IF map[i][1] = ym THEN <<ym, RAdd(map[i][2], val)>> ELSE map[i]]
        ELSE Append(map, <<ym, val>>)

\* rows.forEach(r => { if (matchesFilters(r)) add(r.date, sign * netUsdOf(r)) })
RECURSIVE addAll(_, _, _, _, _, _)
addAll(map, rows, i, negate, f, today) ==
    IF i > Len(rows) THEN map
    ELSE LET r == rows[i]
             v == IF negate THEN RNeg(netUsdOf(r)) ELSE netUsdOf(r)
         IN  addAll(IF matchesFilters(r, f, today) THEN mapAdd(map, r.date, v) ELSE map,
                    rows, i + 1, negate, f, today)

\* [...entries].sort(([a],[b]) => a.localeCompare(b))
RECURSIVE sortEntries(_)
sortEntries(es) ==
    IF Len(es) = 0 THEN <<>>
    ELSE LET k == CHOOSE i \in 1..Len(es) :
                     \A j \in 1..Len(es) :
                         ~ YmLt(es[j][1], es[i][1]) /\ (es[j][1] = es[i][1] => i <= j)
             rest == [i \in 1..(Len(es) - 1) |-> IF i < k THEN es[i] ELSE es[i + 1]]
         IN  <<es[k]>> \o sortEntries(rest)

monthlyOf_Unsorted(d, f, today) ==
    addAll(addAll(<<>>, d.invoices, 1, FALSE, f, today), d.expenses, 1, TRUE, f, today)

monthlyOf(d, f, today) ==
    sortEntries(addAll(addAll(<<>>, d.invoices, 1, FALSE, f, today),
                       d.expenses, 1, TRUE, f, today))

shownOf(d, f, today) ==
    [invoices |-> filterSeq(d.invoices, f, today),
     expenses |-> filterSeq(d.expenses, f, today)]

\* one render: every derived value is recomputed from the new state
Render(d, u, f, today) ==
    /\ debt' = debtOf(d, f, today)
    /\ totals' = totalsOf(d, u)
    /\ monthly' = monthlyOf(d, f, today)
    /\ shown' = shownOf(d, f, today)

-----------------------------------------------------------------------------
(* Documents.                                                              *)

MaxSteps == 3

PIN == "1234"
Members == {"Debi", "Bocha"}
Nows == {Date(2026, 3, 10)}

\* Math.random().toString(36).slice(2, 10): the n-th id handed out
uidAt(n) == "u" \o ToString(n)

\* the day `day` of the month k months before today's month
DateBack(today, k, day) ==
    LET s == setMonth(Date(today.y, today.m, 1), (today.m - 1) - k)
    IN  Date(s.y, s.m, day)

Half == [mode |-> "percent", debi |-> Num(50), bocha |-> Num(50)]

seedMeta ==
    [members |-> <<"Debi", "Bocha">>,
     clients |-> << [id |-> "c-lions", name |-> "Lions"],
                    [id |-> "c-tgi", name |-> "TGI"],
                    [id |-> "c-ecuabet", name |-> "Ecuabet"] >>,
     logoDataUrl |-> "null"]

seed(today) ==
    [meta |-> seedMeta,
     settings |-> [period |-> "6m"],
     invoices |-> <<
        [id |-> uidAt(1), date |-> today, clientId |-> "c-lions", invoiceNo |-> "INV-1001",
         currency |-> "USD", amount |-> Num(1200), fxRate |-> Zero, createdBy |-> "Debi",
         adjustments |-> << [id |-> uidAt(2), label |-> "Bank tax", type |-> "percent",
                             value |-> Num(-3)] >>,
         split |-> Half, notes |-> "Example row"],
        [id |-> uidAt(3), date |-> today, clientId |-> "c-tgi", invoiceNo |-> "INV-1002",
         currency |-> "ARS", amount |-> Num(900000), fxRate |-> Num(1000),
         createdBy |-> "Bocha", adjustments |-> <<>>, split |-> Half,
         notes |-> "Peso example"] >>,
     expenses |-> <<
        [id |-> uidAt(4), date |-> today, description |-> "Accountant retainer",
         currency |-> "USD", amount |-> Num(200), fxRate |-> Zero, paidBy |-> "Debi",
         adjustments |-> <<>>, split |-> Half] >>,
     changelog |-> <<>>]

\* Documents a previous session saved to localStorage or exported to a file.
DocExample(today) ==
    [meta |-> seedMeta,
     settings |-> [period |-> "6m"],
     invoices |-> <<
        [id |-> "x1", date |-> today, clientId |-> "c-lions", invoiceNo |-> "INV-501",
         currency |-> "USD", amount |-> Num(1000), fxRate |-> Zero, createdBy |-> "Debi",
         adjustments |-> <<>>, split |-> Half, notes |-> ""] >>,
     expenses |-> <<
        [id |-> "x2", date |-> today, description |-> "Rent",
         currency |-> "USD", amount |-> Num(200), fxRate |-> Zero, paidBy |-> "Debi",
         adjustments |-> <<>>, split |-> Half] >>,
     changelog |-> <<
        [id |-> "x4", ts |-> today, user |-> "Debi", action |-> "add_expense",
         payload |-> [id |-> "x2"]],
        [id |-> "x3", ts |-> today, user |-> "Debi", action |-> "add_invoice",
         payload |-> [id |-> "x1"]] >>]

DocMixed(today) ==
    [meta |-> seedMeta,
     settings |-> [period |-> "12m"],
     invoices |-> <<
        [id |-> "m1", date |-> DateBack(today, 2, 25), clientId |-> "c-lions",
         invoiceNo |-> "INV-703", currency |-> "USD", amount |-> Num(100),
         createdBy |-> "Debi",
         adjustments |-> << [id |-> "m2", label |-> "Tax", type |-> "percent",
                             value |-> Num(-10)],
                            [id |-> "m3", label |-> "Bonus", type |-> "fixed",
                             value |-> Num(5)] >>,
         split |-> [mode |-> "percent", debi |-> Num(40)], notes |-> ""],
        [id |-> "m4", date |-> DateBack(today, 8, 20), clientId |-> "c-tgi",
         invoiceNo |-> "INV-702", currency |-> "ARS", amount |-> Num(900000),
         fxRate |-> Num(1000), createdBy |-> "Bocha",
         adjustments |-> << [id |-> "m5", label |-> "Refund", type |-> "fixed",
                             value |-> Num(-2000)] >>,
         split |-> [mode |-> "amount", debi |-> Num(30), bocha |-> Num(70)],
         notes |-> ""],
        [id |-> "m6", date |-> DateBack(today, 2, 5), clientId |-> "c-tgi",
         invoiceNo |-> "INV-701", currency |-> "ARS", amount |-> Num(5000),
         fxRate |-> Zero, createdBy |-> "Bocha", adjustments |-> <<>>,
         split |-> Half, notes |-> ""] >>,
     expenses |-> <<
        [id |-> "m7", date |-> DateBack(today, 2, 9), description |-> "Hosting",
         currency |-> "USD", amount |-> Num(300), fxRate |-> Zero, paidBy |-> "Bocha",
         adjustments |-> <<>>, split |-> Half] >>,
     changelog |-> <<>>]

StoredDocs(today) == {DocExample(today), DocMixed(today)}

\* ---- JSON text.  A text is held as the tree of its tokens: [k |-> "null"],
\* [k |-> "str" | "num", v |-> content], [k |-> "arr", v |-> texts of the elements],
\* [k |-> "obj", v |-> text per written key]; [k |-> "bad"] is text that is not JSON.
\* The document's values are told apart by the property they sit under.
NumberKeys == {"amount", "fxRate", "value", "debi", "bocha"}
ObjectKeys == {"$", "meta", "settings", "split", "payload"}
ArrayKeys == {"members", "clients", "invoices", "expenses", "changelog", "adjustments"}
DateKeys == {"date", "ts"}
\* the elements of members are strings, those of every other array are objects
ElemKey(key) == IF key = "members" THEN "member" ELSE "$"

\* JSON.stringify(value, null, 2): the properties an object has are written, an absent
\* one is not; null is written as null; a finite number is written in the shortest
\* form that reads back as the same number
RECURSIVE JSONstringify(_, _)
RECURSIVE stringifyArray(_, _, _)
stringifyArray(key, xs, i) ==
    IF i > Len(xs) THEN <<>>
    ELSE <<JSONstringify(ElemKey(key), xs[i])>> \o stringifyArray(key, xs, i + 1)

JSONstringify(key, x) ==
    IF key \in ObjectKeys
    THEN [k |-> "obj", v |-> [f \in DOMAIN x |-> JSONstringify(f, x[f])]]
    ELSE IF key \in ArrayKeys THEN [k |-> "arr", v |-> stringifyArray(key, x, 1)]
    ELSE IF key \in NumberKeys THEN [k |-> "num", v |-> x]
    ELSE IF key \in DateKeys THEN [k |-> "str", v |-> x]
    ELSE IF x = "null" THEN [k |-> "null"]
    ELSE [k |-> "str", v |-> x]

\* JSON.parse throws a SyntaxError on text that is not JSON
WellFormed(text) == text.k # "bad"

RECURSIVE JSONparse(_)
RECURSIVE parseArray(_, _)
parseArray(ts, i) ==
    IF i > Len(ts) THEN <<>> ELSE <<JSONparse(ts[i])>> \o parseArray(ts, i + 1)

JSONparse(text) ==
    IF text.k = "null" THEN "null"
    ELSE IF text.k = "arr" THEN parseArray(text.v, 1)
    ELSE IF text.k = "obj" THEN [f \in DOMAIN text.v |-> JSONparse(text.v[f])]
    ELSE text.v

\* the text exportJSON puts into the downloaded file
exportJSON_EmptyLog(d) == JSONstringify("$", [d EXCEPT !.changelog = <<>>])

exportJSON(d) == JSONstringify("$", d)

\* the files the user picks for importJSON: earlier exports of stored documents, a
\* file that is not JSON
Malformed == [k |-> "bad"]
ImportFiles(today) == {exportJSON(d) : d \in StoredDocs(today)} \cup {Malformed}

-----------------------------------------------------------------------------
(* State after construction.                                               *)

NoRow == [id |-> "none"]
NoRes == [done |-> FALSE]
NoFile == [none |-> TRUE]

\* useState(loadDB()), useState(null), useState(""), the filter defaults followed by
\* the effect that copies db.settings.period, and the first render
\* stored[t]: the documents local storage may hold on day t
AppInitOn(clock, n, stored) ==
    /\ now \in clock
    /\ budget = n
    /\ exported = NoFile
    /\ \E fromSeed \in BOOLEAN :
          IF fromSeed THEN db = seed(now) /\ nextId = 4
                      ELSE db \in stored[now] /\ nextId = 0
    /\ user = "null"
    /\ pin = ""
    /\ flt = [period |-> db.settings.period, clientId |-> "all", creator |-> "all"]
    /\ steps = 0
    /\ debt = debtOf(db, flt, now)
    /\ totals = totalsOf(db, user)
    /\ monthly = monthlyOf(db, flt, now)
    /\ shown = shownOf(db, flt, now)
    /\ alert = ""
    /\ last = "init"

AppInitAt(clock, n) == AppInitOn(clock, n, [t \in clock |-> StoredDocs(t)])
AppInit == AppInitAt(Nows, MaxSteps)

-----------------------------------------------------------------------------
(* Handlers.  Each one is a whole event: the state updates it queues, the  *)
(* effects they trigger and the render that follows.                       *)

\* { ...r, ...patch }
Spread(r, patch) ==
    [k \in (DOMAIN r) \cup (DOMAIN patch) |-> IF k \in DOMAIN patch THEN patch[k] ELSE r[k]]

StepX(name, d2, u2, f2, p2, n2, a2, e2) ==
    /\ steps < budget
    /\ steps' = steps + 1
    /\ db' = d2
    /\ user' = u2
    /\ flt' = f2
    /\ pin' = p2
    /\ nextId' = n2
    /\ alert' = a2
    /\ last' = name
    /\ exported' = e2
    /\ Render(db', user', flt', now)
    /\ UNCHANGED <<now, budget, row, res>>

\* a handler that downloads nothing
Step(name, d2, u2, f2, p2, n2, a2) == StepX(name, d2, u2, f2, p2, n2, a2, exported)

\* ---- login screen (rendered while user is null)
PinInputs == {PIN, "0000"}

TypePin(p) ==
    /\ user = "null"
    /\ p # pin
    /\ Step("typePin", db, user, flt, p, nextId, "")

\* the select starts at "Debi", so the first change it can report is "Bocha"
ChooseParty ==
    /\ user = "null"
    /\ Step("chooseParty", db, "Bocha", flt, pin, nextId, "")

Enter ==
    /\ user = "null"
    /\ IF pin = PIN
       THEN Step("enter", db, "Debi", flt, pin, nextId, "")
       ELSE Step("enter", db, user, flt, pin, nextId, "Wrong PIN")

Logout ==
    /\ user # "null"
    /\ Step("logout", db, "null", flt, pin, nextId, "")

\* ---- filters
Periods == {"6m", "12m", "ytd", "all"}

SetPeriod(p) ==
    /\ user # "null"
    /\ p # flt.period
    /\ Step("setPeriod", db, user, [flt EXCEPT !.period = p], pin, nextId, "")

ClientIds(d) == {d.meta.clients[i].id : i \in 1..Len(d.meta.clients)}

SetClientFilter(c) ==
    /\ user # "null"
    /\ c \in {"all"} \cup ClientIds(db)
    /\ c # flt.clientId
    /\ Step("setClientFilter", db, user, [flt EXCEPT !.clientId = c], pin, nextId, "")

SetCreatorFilter(c) ==
    /\ user # "null"
    /\ c # flt.creator
    /\ Step("setCreatorFilter", db, user, [flt EXCEPT !.creator = c], pin, nextId, "")

\* ---- actions and change log
log_Overwrite(cur, id, who, action, payload) ==
    [cur EXCEPT !.changelog =
        << [id |-> id, ts |-> now, user |-> IF who = "null" THEN "sys" ELSE who,
            action |-> action, payload |-> payload] >>]

log(cur, id, who, action, payload) ==
    [cur EXCEPT !.changelog =
        << [id |-> id, ts |-> now, user |-> IF who = "null" THEN "sys" ELSE who,
            action |-> action, payload |-> payload] >> \o @]

curClientId(d) == IF Len(d.meta.clients) > 0 THEN d.meta.clients[1].id ELSE ""

InvoiceNos == {"INV-100", "INV-999"}

addInvoice(cur, who, id, logId, invoiceNo) ==
    LET r == [id |-> id, date |-> now, clientId |-> curClientId(cur),
              invoiceNo |-> invoiceNo, currency |-> "USD", amount |-> Zero,
              fxRate |-> Zero, createdBy |-> IF who = "null" THEN "Debi" ELSE who,
              adjustments |-> <<>>, split |-> Half, notes |-> ""]
    IN  log([cur EXCEPT !.invoices = <<r>> \o @], logId, who, "add_invoice", [id |-> id])

AddInvoice(invoiceNo) ==
    /\ user # "null"
    /\ Step("addInvoice", addInvoice(db, user, uidAt(nextId + 1), uidAt(nextId + 2), invoiceNo),
            user, flt, pin, nextId + 2, "")

addExpense(cur, who, id, logId) ==
    LET r == [id |-> id, date |-> now, description |-> "", currency |-> "USD",
              amount |-> Zero, fxRate |-> Zero,
              paidBy |-> IF who = "null" THEN "Debi" ELSE who,
              adjustments |-> <<>>, split |-> Half]
    IN  log([cur EXCEPT !.expenses = <<r>> \o @], logId, who, "add_expense", [id |-> id])

AddExpense ==
    /\ user # "null"
    /\ Step("addExpense", addExpense(db, user, uidAt(nextId + 1), uidAt(nextId + 2)),
            user, flt, pin, nextId + 2, "")

addClient(cur, id, name) ==
    [cur EXCEPT !.meta.clients = Append(@, [id |-> "c-" \o id, name |-> name])]

ClientNames == {"Acme"}

AddClient(name) ==
    /\ user # "null"
    /\ Step("addClient", addClient(db, uidAt(nextId + 1), name), user, flt, pin, nextId + 1, "")

updateRow_AllRows(cur, type, id, patch) ==
    IF type = "invoice"
    THEN [cur EXCEPT !.invoices = [i \in 1..Len(@) |-> Spread(@[i], patch)]]
    ELSE [cur EXCEPT !.expenses = [i \in 1..Len(@) |-> Spread(@[i], patch)]]

updateRow(cur, type, id, patch) ==
    IF type = "invoice"
    THEN [cur EXCEPT !.invoices =
             [i \in 1..Len(@) |-> IF @[i].id = id THEN Spread(@[i], patch) ELSE @[i]]]
    ELSE [cur EXCEPT !.expenses =
             [i \in 1..Len(@) |-> IF @[i].id = id THEN Spread(@[i], patch) ELSE @[i]]]

removeRow(cur, type, id) ==
    IF type = "invoice"
    THEN [cur EXCEPT !.invoices = SelectSeq(@, LAMBDA r : r.id # id)]
    ELSE [cur EXCEPT !.expenses = SelectSeq(@, LAMBDA r : r.id # id)]

setLogo(cur, dataUrl) == [cur EXCEPT !.meta.logoDataUrl = dataUrl]

SetLogo ==
    /\ user # "null"
    /\ Step("setLogo", setLogo(db, "data:image/png"), user, flt, pin, nextId, "")

\* ---- the row editors (InvoiceRow, ExpenseRow, Adjustments): each control sends one
\* patch for the row it is rendered in, so only displayed rows can be edited
EditDates(today) == {DateBack(today, 2, 15), DateBack(today, 8, 15)}
EditAmounts == {Num(1000)}
EditCurrencies == {"ARS"}
EditModes == {"amount"}
EditClients == {"c-tgi"}
EditAdjs == {[label |-> "Adj", type |-> "percent", value |-> Num(-10)]}

adjustmentsOf(r) == IF "adjustments" \in DOMAIN r THEN r.adjustments ELSE <<>>

CommonPatches(r, newId) ==
    {[date |-> d] : d \in EditDates(now)}
    \cup {[currency |-> c] : c \in EditCurrencies}
    \cup {[amount |-> a] : a \in EditAmounts}
    \cup {[split |-> Spread(r.split, [mode |-> m])] : m \in EditModes}
    \cup {[adjustments |-> Append(adjustmentsOf(r), Spread([id |-> newId], a))] :
             a \in EditAdjs}
    \cup {[adjustments |-> SelectSeq(adjustmentsOf(r), LAMBDA a : a.id # adjustmentsOf(r)[i].id)] :
             i \in 1..Len(adjustmentsOf(r))}

InvoicePatches(r, newId) ==
    CommonPatches(r, newId)
    \cup {[clientId |-> c] : c \in EditClients \cap ClientIds(db)}
    \cup {[createdBy |-> m] : m \in Members}

ExpensePatches(r, newId) ==
    CommonPatches(r, newId)
    \cup {[paidBy |-> m] : m \in Members}

\* Adjustments.add draws an id for the new adjustment
UsesId(patch) == "adjustments" \in DOMAIN patch /\ \E i \in 1..Len(patch.adjustments) :
                    patch.adjustments[i].id = uidAt(nextId + 1)

UpdateInvoice ==
    /\ user # "null"
    /\ \E i \in 1..Len(shown.invoices) :
          \E patch \in InvoicePatches(shown.invoices[i], uidAt(nextId + 1)) :
             Step("updateRow", updateRow(db, "invoice", shown.invoices[i].id, patch),
                  user, flt, pin, IF UsesId(patch) THEN nextId + 1 ELSE nextId, "")

UpdateExpense ==
    /\ user # "null"
    /\ \E i \in 1..Len(shown.expenses) :
          \E patch \in ExpensePatches(shown.expenses[i], uidAt(nextId + 1)) :
             Step("updateRow", updateRow(db, "expense", shown.expenses[i].id, patch),
                  user, flt, pin, IF UsesId(patch) THEN nextId + 1 ELSE nextId, "")

RemoveInvoice ==
    /\ user # "null"
    /\ \E i \in 1..Len(shown.invoices) :
          Step("removeRow", removeRow(db, "invoice", shown.invoices[i].id),
               user, flt, pin, nextId, "")

RemoveExpense ==
    /\ user # "null"
    /\ \E i \in 1..Len(shown.expenses) :
          Step("removeRow", removeRow(db, "expense", shown.expenses[i].id),
               user, flt, pin, nextId, "")

\* ---- import: reader.onload parses the text and replaces the document; the effect
\* on db.settings.period then copies a changed period into the filter
importJSON_Partial(cur, file) ==
    IF WellFormed(file) THEN JSONparse(file) ELSE [cur EXCEPT !.changelog = <<>>]

\* try { setDb(JSON.parse(reader.result)) } catch (e) { alert("Invalid JSON") }
importJSON(cur, file) == IF WellFormed(file) THEN JSONparse(file) ELSE cur

ImportJSON(file) ==
    /\ user # "null"
    /\ LET d2 == importJSON(db, file)
           f2 == IF d2.settings.period # db.settings.period
                 THEN [flt EXCEPT !.period = d2.settings.period] ELSE flt
       IN  Step("importJSON", d2, user, f2, pin, nextId,
                IF WellFormed(file) THEN "" ELSE "Invalid JSON")

\* ---- export: the document of the current render is written to a file
ExportJSON ==
    /\ user # "null"
    /\ StepX("exportJSON", db, user, flt, pin, nextId, "",
             [text |-> exportJSON(db), doc |-> db])

AppNext ==
    \/ \E p \in PinInputs : TypePin(p)
    \/ ChooseParty
    \/ Enter
    \/ Logout
    \/ \E p \in Periods : SetPeriod(p)
    \/ \E c \in {"all"} \cup ClientIds(db) : SetClientFilter(c)
    \/ \E c \in {"all"} \cup Members : SetCreatorFilter(c)
    \/ \E n \in InvoiceNos : AddInvoice(n)
    \/ AddExpense
    \/ \E n \in ClientNames : AddClient(n)
    \/ SetLogo
    \/ UpdateInvoice
    \/ UpdateExpense
    \/ RemoveInvoice
    \/ RemoveExpense
    \/ \E file \in ImportFiles(now) : ImportJSON(file)

Init == AppInit /\ row = NoRow /\ res = NoRes
Next == AppNext
Spec == Init /\ [][Next]_vars

-----------------------------------------------------------------------------
(* The core functions on their own: a row is drawn from a bounded set and  *)
(* the functions are applied to it once.                                   *)

\* an optional property: absent, or present with one of vals
Frag(k, vals) == {[x \in {} |-> Zero]} \cup {[x \in {k} |-> v] : v \in vals}

CoreAmounts == {Num(0), Num(100), Num(1000), Num(900000)}
CoreRates == {Zero, Num(1000)}
CorePercent(v) == [id |-> "a", label |-> "Adj", type |-> "percent", value |-> Num(v)]
CoreFixed(v) == [id |-> "b", label |-> "Adj", type |-> "fixed", value |-> Num(v)]
CoreAdjLists ==
    { <<>>, <<CorePercent(-10)>>, <<CoreFixed(5)>>,
      <<CorePercent(-10), CoreFixed(5)>>, <<CoreFixed(5), CorePercent(-10)>>,
      <<CoreFixed(-2000)>>, <<CoreFixed(-2000), CorePercent(-3)>> }
CoreSplits ==
    { Spread(Spread([mode |-> m], a), b) :
        m \in {"percent", "amount"},
        a \in Frag("debi", {Num(30), Num(50)}),
        b \in Frag("bocha", {Num(70), Num(50)}) }

CoreBase(party) ==
    { Spread(Spread([id |-> "r", date |-> Date(2026, 3, 10), currency |-> c, amount |-> a,
                     adjustments |-> adjs, split |-> sp], x), party) :
        c \in {"USD", "ARS"}, a \in CoreAmounts, adjs \in CoreAdjLists,
        sp \in CoreSplits, x \in Frag("fxRate", CoreRates) }

CoreInvoices == UNION { CoreBase([createdBy |-> m]) : m \in Members }
CoreExpenses == UNION { CoreBase([paidBy |-> m]) : m \in Members }

CoreInit ==
    /\ AppInit
    /\ db = seed(now)
    /\ row \in CoreInvoices \cup CoreExpenses
    /\ res = NoRes

ApplyIncome ==
    /\ "createdBy" \in DOMAIN row
    /\ ~ res.done
    /\ res' = [done |-> TRUE, usd |-> usdOf(row), net |-> netUsdOf(row),
               split |-> splitUsd(row), delta |-> debtDeltaIncome(row)]
    /\ UNCHANGED <<appVars, row>>

ApplyExpense ==
    /\ "paidBy" \in DOMAIN row
    /\ ~ res.done
    /\ res' = [done |-> TRUE, usd |-> usdOf(row), net |-> netUsdOf(row),
               split |-> splitUsd(row), delta |-> debtDeltaExpense(row)]
    /\ UNCHANGED <<appVars, row>>

CoreNext == ApplyIncome \/ ApplyExpense
CoreSpec == CoreInit /\ [][CoreNext]_vars

-----------------------------------------------------------------------------
(* Export and import: the App with the handlers that add and remove rows,  *)
(* the export button, and a file input that is also given earlier          *)
(* downloads and a file written outside the App.                           *)

\* a well-formed document written by hand: its rows name a third person
DocForeign(today) ==
    [meta |-> seedMeta,
     settings |-> [period |-> "ytd"],
     invoices |-> <<
        [id |-> "f1", date |-> today, clientId |-> "c-lions", invoiceNo |-> "INV-301",
         currency |-> "USD", amount |-> Num(400), fxRate |-> Zero, createdBy |-> "Carol",
         adjustments |-> <<>>, split |-> Half, notes |-> ""] >>,
     expenses |-> <<
        [id |-> "f2", date |-> today, description |-> "Fees", currency |-> "USD",
         amount |-> Num(40), fxRate |-> Zero, paidBy |-> "Carol",
         adjustments |-> <<>>, split |-> Half] >>,
     changelog |-> <<>>]

ForeignFiles(today) == {JSONstringify("$", DocForeign(today))}

\* the file the last export downloaded, if any
Downloads == IF exported = NoFile THEN {} ELSE {exported.text}

IOInit == AppInitAt(Nows, MaxSteps + 1) /\ row = NoRow /\ res = NoRes

IONext ==
    \/ \E p \in PinInputs : TypePin(p)
    \/ ChooseParty
    \/ Enter
    \/ Logout
    \/ \E n \in InvoiceNos : AddInvoice(n)
    \/ AddExpense
    \/ RemoveInvoice
    \/ RemoveExpense
    \/ ExportJSON
    \/ \E file \in ImportFiles(now) \cup ForeignFiles(now) \cup Downloads : ImportJSON(file)

IOSpec == IOInit /\ [][IONext]_vars

-----------------------------------------------------------------------------
(* updateRow and removeRow on their own: a stored document and one call    *)
(* are drawn from bounded sets and the call is applied to the document.    *)

\* a stored document in which an id occurs twice among the invoices and once more
\* among the expenses
DocTwins(today) ==
    [meta |-> seedMeta,
     settings |-> [period |-> "6m"],
     invoices |-> <<
        [id |-> "t1", date |-> today, clientId |-> "c-lions", invoiceNo |-> "INV-201",
         currency |-> "USD", amount |-> Num(100), fxRate |-> Zero, createdBy |-> "Debi",
         adjustments |-> <<>>, split |-> Half, notes |-> ""],
        [id |-> "t2", date |-> today, clientId |-> "c-tgi", invoiceNo |-> "INV-202",
         currency |-> "USD", amount |-> Num(200), fxRate |-> Zero, createdBy |-> "Bocha",
         adjustments |-> <<>>, split |-> Half, notes |-> ""],
        [id |-> "t1", date |-> DateBack(today, 1, 5), clientId |-> "c-tgi",
         invoiceNo |-> "INV-203", currency |-> "USD", amount |-> Num(300), fxRate |-> Zero,
         createdBy |-> "Bocha", adjustments |-> <<>>, split |-> Half, notes |-> "copy"] >>,
     expenses |-> <<
        [id |-> "t1", date |-> today, description |-> "Rent", currency |-> "USD",
         amount |-> Num(50), fxRate |-> Zero, paidBy |-> "Debi",
         adjustments |-> <<>>, split |-> Half],
        [id |-> "t3", date |-> today, description |-> "Ads", currency |-> "USD",
         amount |-> Num(70), fxRate |-> Zero, paidBy |-> "Bocha",
         adjustments |-> <<>>, split |-> Half] >>,
     changelog |-> << [id |-> "t4", ts |-> today, user |-> "Debi", action |-> "add_invoice",
                       payload |-> [id |-> "t2"]] >>]

FrameDocs(today) == StoredDocs(today) \cup {DocTwins(today)}

RowIds(d) == {d.invoices[i].id : i \in 1..Len(d.invoices)}
               \cup {d.expenses[i].id : i \in 1..Len(d.expenses)}

FramePatches(today) ==
    {[amount |-> Num(1000)],
     [date |-> DateBack(today, 2, 15)],
     [createdBy |-> "Bocha"],
     [paidBy |-> "Bocha"],
     [split |-> [mode |-> "amount", debi |-> Num(30), bocha |-> Num(70)]],
     [currency |-> "ARS", fxRate |-> Num(1000)]}

\* the calls: an id of the document or an id no row has
FrameCalls(d, today) ==
    {[op |-> "updateRow", type |-> t, id |-> i, patch |-> p] :
        t \in {"invoice", "expense"}, i \in RowIds(d) \cup {"zz"}, p \in FramePatches(today)}
    \cup {[op |-> "removeRow", type |-> t, id |-> i] :
        t \in {"invoice", "expense"}, i \in RowIds(d) \cup {"zz"}}

FrameInit ==
    /\ AppInitOn(Nows, MaxSteps, [t \in Nows |-> FrameDocs(t)])
    /\ row \in FrameCalls(db, now)
    /\ res = NoRes

ApplyUpdateRow ==
    /\ res = NoRes
    /\ row.op = "updateRow"
    /\ db' = updateRow(db, row.type, row.id, row.patch)
    /\ res' = [done |-> TRUE, before |-> db]
    /\ Render(db', user, flt, now)
    /\ UNCHANGED <<user, pin, flt, now, nextId, steps, alert, last, exported, budget, row>>

ApplyRemoveRow ==
    /\ res = NoRes
    /\ row.op = "removeRow"
    /\ db' = removeRow(db, row.type, row.id)
    /\ res' = [done |-> TRUE, before |-> db]
    /\ Render(db', user, flt, now)
    /\ UNCHANGED <<user, pin, flt, now, nextId, steps, alert, last, exported, budget, row>>

FrameNext == ApplyUpdateRow \/ ApplyRemoveRow
FrameSpec == FrameInit /\ [][FrameNext]_vars

-----------------------------------------------------------------------------
(* The period filter under different clocks: the App starts from the seed  *)
(* on any day of the set and the user logs in and picks presets.           *)

ClockDates == {Date(y, m, d) : y \in {2025, 2026}, m \in 1..12, d \in {1, 28}}

DateInit == AppInitAt(ClockDates, MaxSteps) /\ db = seed(now) /\ row = NoRow /\ res = NoRes

DateNext ==
    \/ \E p \in PinInputs : TypePin(p)
    \/ ChooseParty
    \/ Enter
    \/ \E p \in Periods : SetPeriod(p)

DateSpec == DateInit /\ [][DateNext]_vars

-----------------------------------------------------------------------------
(* Claims about the core functions (checked under CoreSpec).               *)

IsInvoice(r) == "createdBy" \in DOMAIN r
IsExpense(r) == "paidBy" \in DOMAIN r

\* C1: the debt delta follows the policy table for "Bocha owes Debi": an income
\* created by Debi gives minus Bocha's split share, an income created by Bocha gives
\* plus Debi's split share, an expense paid by Debi gives plus Bocha's split share and
\* an expense paid by Bocha gives minus Debi's split share.
C1_DebtDeltaPolicy ==
    res.done =>
        /\ (IsInvoice(row) /\ row.createdBy = "Debi") => res.delta = RSub(Zero, res.split.bochaUSD)
        /\ (IsInvoice(row) /\ row.createdBy = "Bocha") => res.delta = res.split.debiUSD
        /\ (IsExpense(row) /\ row.paidBy = "Debi") => res.delta = res.split.bochaUSD
        /\ (IsExpense(row) /\ row.paidBy = "Bocha") => res.delta = RSub(Zero, res.split.debiUSD)

C1_Witness ==
    /\ res.done
    /\ IsInvoice(row)
    /\ row.createdBy = "Bocha"
    /\ res.split.debiUSD # res.split.bochaUSD
    /\ RLt(Zero, res.delta)

\* C3: usdOf returns the amount unchanged for a USD row whatever its fxRate; for a
\* non-USD row with a non-zero fxRate it returns amount / fxRate (900000 ARS at 1000
\* gives 900); for a non-USD row whose fxRate is 0 or missing it returns 0.
C3_Normalization ==
    res.done =>
        /\ row.currency = "USD" => res.usd = row.amount
        /\ (row.currency # "USD" /\ "fxRate" \in DOMAIN row /\ row.fxRate # Zero)
              => RMul(res.usd, row.fxRate) = row.amount
        /\ (row.currency # "USD" /\ ("fxRate" \notin DOMAIN row \/ row.fxRate = Zero))
              => res.usd = Zero
        /\ (row.currency = "ARS" /\ row.amount = Num(900000) /\ "fxRate" \in DOMAIN row
             /\ row.fxRate = Num(1000)) => res.usd = Num(900)

C3_Witness ==
    /\ res.done
    /\ row.currency = "ARS"
    /\ "fxRate" \notin DOMAIN row
    /\ row.amount = Num(900000)
    /\ res.usd = Zero

\* C4: netUsdOf is the left fold over the adjustments in stored order starting from
\* the normalized amount: with no adjustment it is the normalized amount, and with a
\* last adjustment it is the net of the list without it, multiplied by (1 + value/100)
\* when that adjustment is a percent and increased by value when it is fixed; nothing
\* is re-sorted or clamped (100 with [percent -10, fixed +5] is 95, with
\* [fixed +5, percent -10] is 94.5).
C4_LeftFold ==
    res.done =>
        LET adjs == row.adjustments
            n == Len(adjs)
            front == Spread(row, [adjustments |-> SubSeq(adjs, 1, n - 1)])
        IN  /\ n = 0 => res.net = res.usd
            /\ (n > 0 /\ adjs[n].type = "percent")
                  => RMul(res.net, Num(100))
                       = RMul(netUsdOf(front), Num(100 + adjs[n].value[1]))
            /\ (n > 0 /\ adjs[n].type = "fixed")
                  => RSub(res.net, netUsdOf(front)) = adjs[n].value
            /\ (res.usd = Num(100) /\ adjs = <<CorePercent(-10), CoreFixed(5)>>)
                  => res.net = Num(95)
            /\ (res.usd = Num(100) /\ adjs = <<CoreFixed(5), CorePercent(-10)>>)
                  => res.net = <<189, 2>>

C4_Witness ==
    /\ res.done
    /\ res.usd = Num(900)
    /\ row.adjustments = <<CoreFixed(-2000), CorePercent(-3)>>
    /\ res.net = Num(-1067)

\* C5: in amount mode splitUsd returns the two stored shares verbatim, the same for
\* every amount, currency, fxRate and adjustment list of the row; in percent mode it
\* returns net * debi/100 and net * bocha/100, each on its own; a missing share
\* counts as 0 in both modes.
C5_Split ==
    res.done =>
        LET sp == row.split
            a == IF "debi" \in DOMAIN sp THEN sp.debi ELSE Zero
            b == IF "bocha" \in DOMAIN sp THEN sp.bocha ELSE Zero
        IN  /\ sp.mode = "amount" =>
                  /\ res.split = [debiUSD |-> a, bochaUSD |-> b]
                  /\ \A c \in {"USD", "ARS"}, amt \in CoreAmounts, adjs \in CoreAdjLists,
                        x \in Frag("fxRate", CoreRates) :
                        splitUsd(Spread([k \in (DOMAIN row) \ {"fxRate"} |-> row[k]],
                                        Spread([currency |-> c, amount |-> amt,
                                                adjustments |-> adjs], x)))
                          = res.split
            /\ sp.mode = "percent" =>
                  /\ RMul(res.split.debiUSD, Num(100)) = RMul(res.net, a)
                  /\ RMul(res.split.bochaUSD, Num(100)) = RMul(res.net, b)

C5_Witness ==
    /\ res.done
    /\ row.split = [mode |-> "amount", debi |-> Num(30)]
    /\ res.net = Num(1000)
    /\ res.split = [debiUSD |-> Num(30), bochaUSD |-> Zero]

-----------------------------------------------------------------------------
(* Claims about the App component (checked under Spec).                    *)

\* vals[p[1]] + ... + vals[p[n]], added in that order
RECURSIVE SumInOrder(_, _, _, _)
SumInOrder(vals, p, i, acc) ==
    IF i > Len(vals) THEN acc ELSE SumInOrder(vals, p, i + 1, RAdd(acc, vals[p[i]]))

IdsOf(rows) == {rows[i].id : i \in 1..Len(rows)}

\* C2: after any sequence of handlers the displayed debt is the sum of the debt deltas
\* of every invoice plus every expense of the document, whatever the order in which
\* the rows are taken; income net 1000 created by Debi split 50/50 with expense net 200
\* paid by Debi split 50/50 gives -400.
C2_DebtIsFullSum ==
    LET inc == [i \in 1..Len(db.invoices) |-> debtDeltaIncome(db.invoices[i])]
        exp == [i \in 1..Len(db.expenses) |-> debtDeltaExpense(db.expenses[i])]
    IN  /\ \A p \in Permutations(1..Len(inc)), q \in Permutations(1..Len(exp)) :
              debt = RAdd(SumInOrder(inc, p, 1, Zero), SumInOrder(exp, q, 1, Zero))
        /\ (/\ Len(db.invoices) = 1 /\ Len(db.expenses) = 1
            /\ netUsdOf(db.invoices[1]) = Num(1000) /\ db.invoices[1].createdBy = "Debi"
            /\ db.invoices[1].split = Half
            /\ netUsdOf(db.expenses[1]) = Num(200) /\ db.expenses[1].paidBy = "Debi"
            /\ db.expenses[1].split = Half)
              => debt = Num(-400)

C2_Witness ==
    /\ last = "updateRow"
    /\ Len(db.invoices) >= 2
    /\ Len(shown.invoices) < Len(db.invoices)
    /\ \E i \in 1..Len(db.invoices) :
          db.invoices[i].id \notin IdsOf(shown.invoices) /\ debtDeltaIncome(db.invoices[i]) # Zero
    /\ debt # Zero

\* the filter as stated: date in the selected range, counterparty (income only) and
\* responsible party (createdBy of an income, paidBy of an expense)
InSelectedRange(r) ==
    LET rg == dateRangeFor(flt.period, now)
    IN  ~ DateLt(r.date, rg.start) /\ ~ DateLt(rg.end, r.date)

PassesInvoice(r) ==
    /\ InSelectedRange(r)
    /\ (flt.clientId = "all" \/ r.clientId = flt.clientId)
    /\ (flt.creator = "all" \/ r.createdBy = flt.creator)

PassesExpense(r) ==
    /\ InSelectedRange(r)
    /\ (flt.creator = "all" \/ r.paidBy = flt.creator)

\* C6: a transaction passes the filter iff its date is in the selected range, and no
\* counterparty filter is set or its counterparty matches (income only), and no
\* responsible-party filter is set or its responsible party matches (createdBy for an
\* income, paidBy for an expense).
C6_FilterIff ==
    /\ \A i \in 1..Len(db.invoices) :
          (db.invoices[i].id \in IdsOf(shown.invoices)) <=> PassesInvoice(db.invoices[i])
    /\ \A i \in 1..Len(db.expenses) :
          (db.expenses[i].id \in IdsOf(shown.expenses)) <=> PassesExpense(db.expenses[i])

\* C7: the summary totals are taken over the invoices that pass the current filter:
\* total income is the sum of max(0, net), the current user's share is the sum of that
\* user's split output, the partner's share is total income minus the user's share; an
\* invoice outside the date range contributes to no summary total.
C7_TotalsOverFiltered ==
    user # "null" =>
        /\ totals.incomeUSD = reduceNet(shown.invoices, 1, Zero)
        /\ totals.yourShare = reduceShare(shown.invoices, 1, Zero, user)
        /\ totals.partnerShare = RSub(totals.incomeUSD, totals.yourShare)

InMonth(rows, ym) == SelectSeq(rows, LAMBDA r : ymOf(r.date) = ym)

RECURSIVE SumNet(_, _)
SumNet(rows, i) == IF i > Len(rows) THEN Zero ELSE RAdd(netUsdOf(rows[i]), SumNet(rows, i + 1))

RECURSIVE IsSubseq(_, _)
IsSubseq(old, new) ==
    IF Len(old) = 0 THEN TRUE
    ELSE IF Len(new) = 0 THEN FALSE
    ELSE IF Head(old) = Head(new) THEN IsSubseq(Tail(old), Tail(new))
    ELSE IsSubseq(old, Tail(new))

C10_EveryActionLogged ==
    [][ (last' \in {"addInvoice", "addExpense", "updateRow", "removeRow", "addClient"}
         /\ db' # db)
          => /\ Len(db'.changelog) = Len(db.changelog) + 1
             /\ Tail(db'.changelog) = db.changelog
             /\ db'.changelog[1].action
                   = CASE last' = "addInvoice" -> "add_invoice"
                       [] last' = "addExpense" -> "add_expense"
                       [] last' = "updateRow" -> "update_row"
                       [] last' = "removeRow" -> "remove_row"
                       [] last' = "addClient" -> "add_client"
      ]_vars

\* C15: the current user changes from unset (the login screen) to a party identity
\* only through pressing Enter while the PIN input holds 1234; choosing a party in the
\* selector or typing a wrong PIN never opens the main view.
C15_PinGate ==
    [][ (user = "null" /\ user' # "null") => (last' = "enter" /\ pin = PIN) ]_vars

\* C11: importing a file whose content is not well-formed JSON is caught, the user
\* is notified, and the document (meta, settings, invoices, expenses, changelog) after
\* the attempt is identical to the one before it; no part of the file is adopted.
C11_MalformedImport ==
    [][ ImportJSON(Malformed)
          => /\ alert' = "Invalid JSON"
             /\ db' = db
             /\ <<debt', totals', monthly', shown'>> = <<debt, totals, monthly, shown>>
      ]_vars

\* a malformed import attempted on a document that an edit has moved away from what
\* was loaded
C11_Witness ==
    /\ last = "importJSON"
    /\ alert = "Invalid JSON"
    /\ db \notin StoredDocs(now) \cup {seed(now)}
    /\ Len(db.changelog) > 0

-----------------------------------------------------------------------------
(* Claims about the period presets (checked under DateSpec).               *)

\* the first day of the month that lies k months before today's month
FirstOfMonthBack(today, k) ==
    LET idx == today.y * 12 + (today.m - 1) - k
    IN  Date(idx \div 12, (idx % 12) + 1, 1)

\* C13: for the presets last-6-months (N = 6) and last-12-months (N = 12) the range
\* the filter uses starts on the first day of the month (N-1) months before the
\* current month, across year boundaries, and ends at the current date; year-to-date
\* starts on January 1 of the current year.
C13_PresetRanges ==
    LET rg == dateRangeFor(flt.period, now)
    IN  /\ flt.period = "6m" => rg = [start |-> FirstOfMonthBack(now, 5), end |-> now]
        /\ flt.period = "12m" => rg = [start |-> FirstOfMonthBack(now, 11), end |-> now]
        /\ flt.period = "ytd" => rg.start = Date(now.y, 1, 1)

-----------------------------------------------------------------------------
(* Claims about updateRow and removeRow (checked under FrameSpec).         *)

\* the indexes of the rows of rows that carry the id
Hits(rows, id) == {i \in 1..Len(rows) : rows[i].id = id}

-----------------------------------------------------------------------------
(* Claims about export and import (checked under IOSpec).                  *)

\* C12: in every reachable state every invoice's createdBy and every expense's paidBy
\* is one of the two known parties, after any sequence of login/logout, addInvoice,
\* addExpense, updateRow, removeRow and importJSON.
C12_KnownParties ==
    /\ \A i \in 1..Len(db.invoices) : db.invoices[i].createdBy \in Members
    /\ \A i \in 1..Len(db.expenses) : db.expenses[i].paidBy \in Members

\* C14: importing the file an export has written yields a document identical to the
\* one that was exported, whatever the document has become in between: the import
\* replaces the whole document and merges nothing of the previous state.
C14_RoundTrip ==
    [][ (exported # NoFile /\ ImportJSON(exported.text)) => db' = exported.doc ]_vars

\* the seed exported, a row added (an id was drawn), and the download imported: only
\* that file brings the seed document back
C14_Witness ==
    /\ last = "importJSON"
    /\ exported # NoFile
    /\ db = exported.doc
    /\ db = seed(now)
    /\ nextId > 4

====
